---- MODULE Spec2Model ----
(***************************************************************************)
(* A model of the Nest camera client: the token cache of Auth.js           *)
(* (fetchOAuthToken, fetchJwtToken) and the two polling feeds of Nest.js   *)
(* (interval -> switchMap -> [takeWhile -> distinctUntilChanged -> map]    *)
(* -> multicast(Subject) -> refCount).                                     *)
(*                                                                         *)
(* JavaScript runs the handlers on one event loop: every action below is   *)
(* one run-to-completion step (a call up to its first await, a timer       *)
(* callback, or the completion of an HTTP request).                        *)
(***************************************************************************)
EXTENDS Integers, Sequences, FiniteSets, Bags, TLC

\* ------------------------------------------------------------------ bounds
MaxPending == 2     \* acquisition calls of the user in flight at once
MaxRefresh == 2     \* refreshTokens() runs in flight at once
MaxInflight == 2    \* resource requests in flight at once
MaxLen == 1         \* longest event list the events endpoint returns

AccessTokens == {"a1", "a2"}    \* values the OAuth endpoint may answer
JwtTokens == {"j1", "j2"}       \* values the session endpoint may answer
EventIds == {"e1", "e2"}
Images == {"img1"}
SnapshotIds == {"id1"}
Subscribers == {"s1", "s2"}
Feeds == {"snapshot", "events"}
Kinds == {"oauth", "jwt"}

VARIABLES
    accessToken,    \* Auth._accessToken
    jwtToken,       \* Auth._jwtToken
    pending,        \* bag of token exchanges awaiting their HTTP response
    firstOK,        \* history: per kind, the token of the first successful
                    \* non-empty exchange since the last reset ("null": none)
    subs,           \* per feed, the observers attached to the Subject
    connected,      \* per feed, whether the interval timer is running
    stopped,        \* per feed, whether the Subject has errored (isStopped)
    dedup,          \* distinctUntilChanged's state: hasKey, key
    emitted,        \* history: a value reached the dedup stage in this cycle
    reqs,           \* bag of resource requests awaiting their HTTP response;
                    \* live: switchMap's inner subscription listens to it
    last            \* history: what the most recent step did

vars == <<accessToken, jwtToken, pending, firstOK, subs, connected, stopped,
          dedup, emitted, reqs, last>>

authVars == <<accessToken, jwtToken, pending, firstOK>>
feedVars == <<subs, connected, stopped, dedup, emitted, reqs>>

\* ---------------------------------------------------------------- helpers
\* Calls and requests have no identity of their own: they are kept in bags.
One(e) == SetToBag({e})

\* The bag of g[e] for the e of bag B.
MapBag(B, g) ==
    [y \in {g[d] : d \in DOMAIN B} |->
        BagCardinality([d \in {x \in DOMAIN B : g[x] = y} |-> B[d]])]

\* JavaScript truthiness of a token field (null and undefined are falsy).
Truthy(tok) == tok \notin {"null", "undefined"}

EventLists == UNION {[1..n -> EventIds] : n \in 0..MaxLen}

NoDelivery == [s \in Subscribers |-> "none"]

NoLast == [op |-> "none", feed |-> "none", kind |-> "none", owner |-> "none",
           outcome |-> "none", result |-> "none", nreq |-> 0, calls |-> 0,
           before |-> "none", arg |-> "none", sawOK |-> "null",
           got |-> NoDelivery, errTo |-> {}, err |-> "none", attached |-> {},
           stale |-> "no", first |-> FALSE, compared |-> FALSE,
           sameLen |-> FALSE, newest |-> "none", prevOp |-> "none",
           prevOutcome |-> "none"]

\* ------------------------------------------------------------------- Auth
Cached(kind) == IF kind = "oauth" THEN accessToken ELSE jwtToken

\* Mutant of CacheHit: the guard written as `!== undefined`, which takes the
\* null of a reset cache for a token.
CacheHitUnlessUndefined(cached) == cached # "undefined"

\* `if(this._accessToken) return this._accessToken;` and its jwt twin.
CacheHit(cached) == Truthy(cached)

OwnedBy(owner) ==
    BagCardinality([c \in {d \in DOMAIN pending : d.owner = owner} |-> pending[c]])

NewCall(kind, arg, owner) == One([kind |-> kind, arg |-> arg, owner |-> owner])

\* What the endpoint of an exchange may answer: a JSON body carrying the
\* token field, a JSON body without it (the field reads undefined), or a
\* network / status / parse failure.
Answers(kind) ==
    [ok : {TRUE},
     tok : (IF kind = "oauth" THEN AccessTokens ELSE JwtTokens) \cup {"undefined"}]
    \cup {[ok |-> FALSE, tok |-> "undefined"]}

\* Mutant of CacheAfterExchange: the assignment moved out of the try block,
\* so a failed exchange stores undefined.
CacheAfterExchangeAlways(cached, answer) == answer.tok

\* try { ...; this._accessToken = access_token; } catch(e) { log }
CacheAfterExchange(cached, answer) == IF answer.ok THEN answer.tok ELSE cached

\* try { ...; return access_token; } catch(e) { log }  (falls off: undefined)
ResultOfExchange(answer) == IF answer.ok THEN answer.tok ELSE "undefined"

\* An exchange failure is logged in the catch block, never re-thrown.
ExchangeRaises(answer) == FALSE

FetchToken(kind, arg) ==
    LET hit == CacheHit(Cached(kind)) IN
    /\ hit \/ OwnedBy("user") < MaxPending
    /\ pending' = IF hit THEN pending
                  ELSE pending (+) NewCall(kind, arg, "user")
    /\ last' = [NoLast EXCEPT
                  !.op = IF kind = "oauth" THEN "fetchOAuthToken" ELSE "fetchJwtToken",
                  !.kind = kind, !.owner = "user", !.arg = arg,
                  !.outcome = IF hit THEN "cached" ELSE "issued",
                  !.result = IF hit THEN Cached(kind) ELSE "pending",
                  !.nreq = IF hit THEN 0 ELSE 1,
                  !.before = Cached(kind),
                  !.sawOK = firstOK[kind],
                  !.prevOp = last.op, !.prevOutcome = last.outcome]
    /\ UNCHANGED <<accessToken, jwtToken, firstOK>>
    /\ UNCHANGED feedVars

FetchOAuthToken == FetchToken("oauth", "none")

FetchJwtToken(arg) == FetchToken("jwt", arg)

ExchangeResponse(c, answer) ==
    LET result == ResultOfExchange(answer)
        newCache == CacheAfterExchange(Cached(c.kind), answer)
        \* a refresh that obtained an access token goes on to the session
        \* exchange with it
        chain == IF /\ c.owner = "refresh" /\ c.kind = "oauth"
                    /\ Truthy(result) /\ ~CacheHit(jwtToken)
                 THEN NewCall("jwt", result, "refresh")
                 ELSE EmptyBag
    IN
    /\ BagIn(c, pending)
    /\ accessToken' = IF c.kind = "oauth" THEN newCache ELSE accessToken
    /\ jwtToken' = IF c.kind = "jwt" THEN newCache ELSE jwtToken
    /\ firstOK' = [firstOK EXCEPT ![c.kind] =
                      IF @ = "null" /\ answer.ok /\ Truthy(answer.tok)
                      THEN answer.tok ELSE @]
    /\ pending' = (pending (-) One(c)) (+) chain
    /\ last' = [NoLast EXCEPT
                  !.op = "exchangeResponse", !.kind = c.kind, !.owner = c.owner,
                  !.arg = c.arg,
                  !.outcome = IF ExchangeRaises(answer) THEN "raised"
                              ELSE IF answer.ok THEN "ok" ELSE "fail",
                  !.result = result,
                  !.nreq = 0,
                  !.calls = BagCardinality(chain),
                  !.before = Cached(c.kind),
                  !.sawOK = firstOK[c.kind]]
    /\ UNCHANGED feedVars

\* reset(): both cached tokens are cleared.
ResetTokens == [access |-> "null", jwt |-> "null"]

\* refreshTokens(): reset, then re-acquire (access token, then session token)
\* without being awaited by its caller.
RefreshPending(pend) ==
    IF CacheHit(ResetTokens.access) THEN pend
    ELSE pend (+) NewCall("oauth", "none", "refresh")

RefreshEnabled == OwnedBy("refresh") < MaxRefresh

\* ------------------------------------------------------------------- Nest
\* The `if(!this.jwtToken) throw` guard: getEvents (line 98) and getSnapshot
\* (line 144) have it, getLatestSnapshot (lines 121-128) has none.
RaisesMissingCredential(fn, jwt) ==
    CASE fn = "getEvents" -> ~Truthy(jwt)
      [] fn = "getLatestSnapshot" -> FALSE
      [] fn = "getSnapshot" -> ~Truthy(jwt)

FetchOf(f) == IF f = "events" THEN "getEvents" ELSE "getLatestSnapshot"

\* Mutant of Superseded: mergeMap in the place of switchMap, every inner
\* subscription kept.
NotSuperseded(f, B) == B

\* switchMap unsubscribes its inner subscription when the next tick arrives.
Superseded(f, B) ==
    MapBag(B, [r \in DOMAIN B |->
                  IF r.feed = f
                  THEN [r EXCEPT !.live = FALSE,
                                 !.stale = IF @ = "no" THEN "superseded" ELSE @]
                  ELSE r])

\* Unsubscribing the connection unsubscribes switchMap's inner subscription.
LiveAfterTeardown(live) == FALSE

TornDown(f, B) ==
    MapBag(B, [r \in DOMAIN B |->
                  IF r.feed = f
                  THEN [r EXCEPT !.live = LiveAfterTeardown(r.live), !.stale = "torndown"]
                  ELSE r])

\* Mutant of FreshDedup: the operator state of the previous connection kept.
CarriedDedup == dedup

\* A new subscription to the source pipeline builds new operator state.
FreshDedup == [hasKey |-> FALSE, key |-> <<>>]

\* Mutant of Multicast: the value handed to one observer only.
MulticastToOne(value, attached) ==
    [s \in Subscribers |->
        IF attached # {} /\ s = CHOOSE x \in attached : TRUE THEN value ELSE "none"]

\* multicast + refCount share one interval and one switchMap among the
\* observers: one emission of the timer projects (calls the fetch) once.
FetchCalls(attached) == 1

\* Subject.next / Subject.error reach every attached observer.
Multicast(value, attached) ==
    [s \in Subscribers |-> IF s \in attached THEN value ELSE "none"]

\* An error notification ends the pipeline of feed f: every observer gets it,
\* the Subject stays stopped, refCount drops to zero and the timer is torn down.
ErrorOut(f, e, base) ==
    /\ subs' = [subs EXCEPT ![f] = {}]
    /\ connected' = [connected EXCEPT ![f] = FALSE]
    /\ stopped' = [stopped EXCEPT ![f] = TRUE]
    /\ dedup' = IF f = "events" THEN FreshDedup ELSE dedup
    /\ emitted' = IF f = "events" THEN FALSE ELSE emitted
    /\ last' = [base EXCEPT !.errTo = subs[f], !.err = e, !.attached = subs[f]]

\* Mutant of Connects: a cold pipeline, built anew for every observer.
ConnectsAlways(wasConnected) == TRUE

\* refCount connects the source when its count goes from 0 to 1, and only then.
Connects(wasConnected) == ~wasConnected

\* Mutant of TimerRunning: the connection kept when the count returns to 0.
TimerKeptRunning(attached) == TRUE

\* refCount holds the connection (the interval) while its count is above 0.
TimerRunning(attached) == attached # {}

\* subscribeToLatestSnapshot / subscribeToEvents
Subscribe(f, s) ==
    /\ s \notin subs[f]
    /\ IF stopped[f]
       THEN \* a stopped Subject hands its error to the newcomer at once
            /\ last' = [NoLast EXCEPT !.op = "subscribe", !.feed = f,
                          !.outcome = "refused", !.errTo = {s}, !.err = "stopped",
                          !.attached = subs[f]]
            /\ UNCHANGED <<subs, connected, stopped, dedup, emitted>>
       ELSE /\ subs' = [subs EXCEPT ![f] = @ \cup {s}]
            /\ connected' = [connected EXCEPT ![f] = TRUE]
            /\ dedup' = IF f = "events" /\ Connects(connected[f])
                        THEN FreshDedup ELSE dedup
            /\ emitted' = IF f = "events" /\ Connects(connected[f])
                          THEN FALSE ELSE emitted
            /\ last' = [NoLast EXCEPT !.op = "subscribe", !.feed = f,
                          !.outcome = IF connected[f] THEN "joined" ELSE "connected",
                          !.attached = subs[f]]
            /\ UNCHANGED stopped
    /\ UNCHANGED reqs
    /\ UNCHANGED authVars

\* Subscription.unsubscribe() of one observer of the refCounted observable.
Unsubscribe(f, s) ==
    LET left == subs[f] \ {s} IN
    /\ s \in subs[f]
    /\ subs' = [subs EXCEPT ![f] = left]
    /\ connected' = [connected EXCEPT ![f] = TimerRunning(left)]
    /\ dedup' = IF left = {} /\ f = "events" THEN FreshDedup ELSE dedup
    /\ emitted' = IF left = {} /\ f = "events" THEN FALSE ELSE emitted
    /\ reqs' = IF left = {} THEN TornDown(f, reqs) ELSE reqs
    /\ last' = [NoLast EXCEPT !.op = "unsubscribe", !.feed = f,
                  !.outcome = IF left = {} THEN "teardown" ELSE "left",
                  !.attached = subs[f]]
    /\ UNCHANGED stopped
    /\ UNCHANGED authVars

\* One emission of interval(): switchMap calls the fetch once and switches to
\* its promise; a throw of the fetch is an error notification.
Tick(f) ==
    LET n == FetchCalls(subs[f])
        base == [NoLast EXCEPT !.op = "tick", !.feed = f, !.calls = n,
                   !.before = jwtToken, !.attached = subs[f]]
    IN
    /\ connected[f]
    /\ BagCardinality(reqs) + n <= MaxInflight
    /\ IF RaisesMissingCredential(FetchOf(f), jwtToken)
       THEN /\ ErrorOut(f, "CredentialMissing", [base EXCEPT !.outcome = "raised"])
            /\ reqs' = TornDown(f, reqs)
       ELSE /\ reqs' = Superseded(f, reqs) (+)
                         [r \in {[feed |-> f, live |-> TRUE, stale |-> "no"]} |-> n]
            /\ last' = [base EXCEPT !.outcome = "issued", !.nreq = n]
            /\ UNCHANGED <<subs, connected, stopped, dedup, emitted>>
    /\ UNCHANGED authVars

\* refreshTokens(), as far as the token cache goes.
RefreshTokens ==
    /\ RefreshEnabled
    /\ accessToken' = ResetTokens.access
    /\ jwtToken' = ResetTokens.jwt
    /\ firstOK' = [k \in Kinds |-> "null"]
    /\ pending' = RefreshPending(pending)

\* init(): `this.refreshTokens(); return this;`
NestInit ==
    /\ RefreshTokens
    /\ last' = [NoLast EXCEPT !.op = "init", !.result = "refreshed",
                  !.before = accessToken, !.arg = jwtToken, !.prevOp = last.op,
                  !.nreq = BagCardinality(pending') - BagCardinality(pending)]
    /\ UNCHANGED feedVars

\* What a resource endpoint may answer: a body, or a failure.
Payloads(f) ==
    IF f = "events"
    THEN [ok : {TRUE}, body : EventLists] \cup {[ok |-> FALSE, body |-> <<>>]}
    ELSE [ok : {TRUE}, body : Images] \cup {[ok |-> FALSE, body |-> "error"]}

\* takeWhile((events) => events.length >= 0)
TakeWhilePred(events) == Len(events) >= 0

\* The names the comparator's body can read: its two parameters. Nothing in
\* Nest.js declares lastEvents.
Binding(name, prevEvents, currEvents) ==
    CASE name = "prevEvents" -> [bound |-> TRUE, val |-> prevEvents]
      [] name = "currEvents" -> [bound |-> TRUE, val |-> currEvents]
      [] OTHER -> [bound |-> FALSE, val |-> <<>>]

\* (prevEvents, currEvents) => currEvents.length === lastEvents.length
Comparator(prevEvents, currEvents) ==
    LET lhs == Binding("currEvents", prevEvents, currEvents)
        rhs == Binding("lastEvents", prevEvents, currEvents)
    IN IF ~lhs.bound \/ ~rhs.bound THEN "ReferenceError"
       ELSE IF Len(lhs.val) = Len(rhs.val) THEN "same" ELSE "distinct"

\* Mutant of Project: the index one past the end, events[events.length].
ProjectPastEnd(events) == "undefined"

\* map(events => events[events.length - 1])
Project(events) == IF Len(events) = 0 THEN "undefined" ELSE events[Len(events)]

\* The catch block of getEvents (lines 115-118) only sees a synchronous throw
\* of `new Promise(...)`; a rejection of the returned promise passes it by.
GetEventsCatches(payload) == FALSE

\* try { return await request(options) } catch(e) { ...refreshTokens() }
GetLatestSnapshotCatches(payload) == ~payload.ok

EventsResponse(r, p, active, base) ==
    LET f == "events"
        cmp == IF dedup.hasKey THEN Comparator(dedup.key, p.body) ELSE "first"
        seen == [base EXCEPT !.compared = dedup.hasKey, !.first = ~emitted,
                   !.sameLen = dedup.hasKey /\ Len(dedup.key) = Len(p.body),
                   !.newest = Project(p.body)]
        caught == GetEventsCatches(p)
    IN
    /\ IF caught THEN RefreshTokens ELSE UNCHANGED authVars
    /\ IF ~active
       THEN \* nobody listens to this promise any more
            /\ reqs' = reqs (-) One(r)
            /\ last' = base
            /\ UNCHANGED <<subs, connected, stopped, dedup, emitted>>
       ELSE IF ~p.ok /\ ~caught
       THEN \* the promise rejects: from() turns it into an error notification
            /\ ErrorOut(f, "FetchFailure", base)
            /\ reqs' = TornDown(f, reqs (-) One(r))
       ELSE IF ~p.ok
       THEN \* a getEvents that caught would resolve to undefined, and
            \* takeWhile reads undefined.length
            /\ ErrorOut(f, "TypeError", base)
            /\ reqs' = TornDown(f, reqs (-) One(r))
       ELSE IF ~TakeWhilePred(p.body)
       THEN \* takeWhile completes the pipeline
            /\ ErrorOut(f, "complete", base)
            /\ reqs' = TornDown(f, reqs (-) One(r))
       ELSE IF cmp = "ReferenceError"
       THEN \* distinctUntilChanged hands the comparator's throw on as an error
            /\ ErrorOut(f, "ReferenceError", seen)
            /\ reqs' = TornDown(f, reqs (-) One(r))
       ELSE /\ reqs' = reqs (-) One(r)
            /\ emitted' = TRUE
            /\ dedup' = IF cmp = "same" THEN dedup
                        ELSE [hasKey |-> TRUE, key |-> p.body]
            /\ last' = IF cmp = "same" THEN seen
                       ELSE [seen EXCEPT !.got = Multicast(Project(p.body), subs[f])]
            /\ UNCHANGED <<subs, connected, stopped>>

SnapshotResponse(r, p, active, base) ==
    LET f == "snapshot"
        caught == GetLatestSnapshotCatches(p)
        value == IF p.ok THEN p.body ELSE "undefined"
    IN
    /\ IF caught THEN RefreshTokens ELSE UNCHANGED authVars
    /\ reqs' = reqs (-) One(r)
    /\ last' = [base EXCEPT
                  !.got = IF active THEN Multicast(value, subs[f]) ELSE NoDelivery,
                  !.result = IF caught THEN "refreshed" ELSE "none"]
    /\ UNCHANGED <<subs, connected, stopped, dedup, emitted>>

\* Completion of the HTTP request of one fetch.
FetchResponse(r, p) ==
    LET active == r.live
        base == [NoLast EXCEPT !.op = "fetchResponse", !.feed = r.feed,
                   !.outcome = IF p.ok THEN "ok" ELSE "fail",
                   !.attached = subs[r.feed], !.stale = r.stale]
    IN
    /\ BagIn(r, reqs)
    /\ IF r.feed = "events" THEN EventsResponse(r, p, active, base)
       ELSE SnapshotResponse(r, p, active, base)

\* getSnapshot(id): the guard, then request(options) is issued; the pipe into
\* fs.createWriteStream throws (Nest.js requires neither fs nor path) and the
\* catch block logs it.
GetSnapshot(id) ==
    LET raised == RaisesMissingCredential("getSnapshot", jwtToken) IN
    /\ last' = [NoLast EXCEPT !.op = "getSnapshot",
                  !.outcome = IF raised THEN "raised" ELSE "issued",
                  !.nreq = IF raised THEN 0 ELSE 1,
                  !.err = IF raised THEN "CredentialMissing" ELSE "none",
                  !.result = IF raised THEN "none" ELSE "logged",
                  !.before = jwtToken, !.arg = id]
    /\ UNCHANGED authVars
    /\ UNCHANGED feedVars

Init ==
    /\ accessToken = "null"
    /\ jwtToken = "null"
    /\ pending = EmptyBag
    /\ firstOK = [k \in Kinds |-> "null"]
    /\ subs = [f \in Feeds |-> {}]
    /\ connected = [f \in Feeds |-> FALSE]
    /\ stopped = [f \in Feeds |-> FALSE]
    /\ dedup = [hasKey |-> FALSE, key |-> <<>>]
    /\ emitted = FALSE
    /\ reqs = EmptyBag
    /\ last = NoLast

\* ------------------------------------------------------------------ claims
AcquisitionOps == {"fetchOAuthToken", "fetchJwtToken"}

\* C1: once a fetchOAuthToken call has completed successfully with a
\* non-empty token, every later fetchOAuthToken call (no reset in between)
\* returns that same token and issues no exchange request.
C1_Memoization ==
    (last.op = "fetchOAuthToken" /\ last.sawOK # "null")
        => (last.nreq = 0 /\ last.result = last.sawOK)

\* C2: acquisition calls of one kind started while the cache is empty and
\* before any of them completed share a single exchange request: at most one
\* exchange of a kind is in flight for the callers.
C2_SingleExchange ==
    \A k \in Kinds :
        BagCardinality([c \in {d \in DOMAIN pending :
                                  d.kind = k /\ d.owner = "user"} |-> pending[c]]) <= 1

C3_Precondition ==
    (last.op \in {"tick", "getSnapshot"} /\ ~Truthy(last.before))
        => (last.err = "CredentialMissing" /\ last.nreq = 0)

\* C4: when an event list reaches the dedup stage after a previous one, a
\* list of the same length emits nothing, a list of another length emits its
\* last element to the subscribers, and neither raises an error.
C4_EventDedup ==
    (last.op = "fetchResponse" /\ last.feed = "events" /\ last.compared)
        => /\ last.err = "none"
           /\ last.got = IF last.sameLen THEN NoDelivery
                         ELSE Multicast(last.newest, last.attached)

\* C5: a failed resource fetch (events or latest snapshot) clears both cached
\* tokens and starts a refresh.
C5_FailureRecovery ==
    (last.op = "fetchResponse" /\ last.outcome = "fail")
        => (accessToken = "null" /\ jwtToken = "null" /\ last.result = "refreshed")

\* C6: a failed fetch of a tick does not terminate its feed: the subscribers
\* stay attached and the timer keeps running.
C6_FailureKeepsFeed ==
    (last.op = "fetchResponse" /\ last.outcome = "fail" /\ last.stale = "no")
        => /\ ~stopped[last.feed]
           /\ subs[last.feed] = last.attached
           /\ connected[last.feed] = (last.attached # {})

\* C7: with any number of subscribers, a tick calls the fetch exactly once,
\* and what a response delivers is delivered alike to every subscriber
\* attached at that time (and to nobody else).
C7_Multicast ==
    /\ last.op = "tick" => (last.attached # {} /\ last.calls = 1 /\ last.nreq <= 1)
    /\ last.op = "fetchResponse"
          => /\ \A s1, s2 \in last.attached : last.got[s1] = last.got[s2]
             /\ \A s \in Subscribers \ last.attached : last.got[s] = "none"

C7_Witness ==
    /\ last.op = "fetchResponse"
    /\ last.attached = Subscribers
    /\ \A s \in Subscribers : last.got[s] \in Images \cup EventIds

\* C8: when the last subscriber leaves, the timer stops (no tick without a
\* subscriber), results of fetches still in flight reach no one, and after a
\* new subscription the first event list of the new cycle is compared
\* against nothing carried over.
C8_RefcountTeardown ==
    /\ \A f \in Feeds : connected[f] = (subs[f] # {})
    /\ last.op = "tick" => last.attached # {}
    /\ (last.op = "fetchResponse" /\ last.stale # "no")
          => (last.got = NoDelivery /\ last.errTo = {})
    /\ (last.op = "fetchResponse" /\ last.feed = "events" /\ last.first)
          => ~last.compared
    /\ ~connected["events"] => (~dedup.hasKey /\ ~emitted)

\* A first event of a new cycle is delivered while a fetch of the torn-down
\* cycle is still in flight.
C8_Witness ==
    /\ last.op = "fetchResponse"
    /\ last.feed = "events"
    /\ last.first
    /\ last.got # NoDelivery
    /\ \E r \in DOMAIN reqs : r.feed = "events" /\ r.stale = "torndown"

\* C11: a resource request (events, latest snapshot, snapshot by id) is only
\* issued while both the session token and the access token are cached, and
\* no session exchange is in flight with an empty or undefined access token.
C11_TokenOrdering ==
    /\ (last.op \in {"tick", "getSnapshot"} /\ last.nreq > 0)
          => (Truthy(last.before) /\ Truthy(accessToken))
    /\ \A c \in DOMAIN pending : c.kind = "jwt" => Truthy(c.arg)

\* C12: once a fetchJwtToken call has completed successfully with a non-empty
\* session token, every later fetchJwtToken call (no reset in between)
\* returns that same token and issues no request to the session endpoint.
C12_JwtMemoization ==
    (last.op = "fetchJwtToken" /\ last.sawOK # "null")
        => (last.result = last.sawOK /\ last.nreq = 0)

\* C13: a cached token that holds a non-empty value keeps exactly that value
\* across every step that is not a reset.
C13_OnlyResetInvalidates ==
    [][ \/ last'.result = "refreshed"
        \/ /\ Truthy(accessToken) => accessToken' = accessToken
           /\ Truthy(jwtToken) => jwtToken' = jwtToken ]_vars

C15_IdleActive ==
    /\ \A f \in Feeds : connected[f] = (subs[f] # {})
    /\ last.op = "none" => (reqs = EmptyBag /\ \A f \in Feeds : ~connected[f])
    /\ (last.op = "subscribe" /\ last.outcome # "refused")
          => (last.outcome = "connected") = (last.attached = {})
    /\ last.op = "tick" => last.attached # {}
    /\ \A r \in DOMAIN reqs : r.live => subs[r.feed] # {}

\* A second subscriber has joined a feed whose fetch is in flight, while the
\* other feed is idle.
C15_Witness ==
    /\ last.op = "subscribe"
    /\ last.outcome = "joined"
    /\ subs[last.feed] = Subscribers
    /\ \E r \in DOMAIN reqs : r.feed = last.feed /\ r.live
    /\ \E f \in Feeds \ {last.feed} : subs[f] = {} /\ ~connected[f]

C17_TickInterleaving ==
    /\ last.op = "tick"
          => (last.calls = 1 /\ (last.outcome = "issued" => last.nreq = 1))
    /\ \A f \in Feeds :
          BagCardinality([r \in {q \in DOMAIN reqs : q.feed = f /\ q.live}
                             |-> reqs[r]]) <= 1
    /\ (last.op = "fetchResponse" /\ last.stale = "superseded")
          => (last.got = NoDelivery /\ last.errTo = {})

\* A superseded fetch answers while the newer fetch of its feed is in flight.
C17_Witness ==
    /\ last.op = "fetchResponse"
    /\ last.stale = "superseded"
    /\ last.outcome = "ok"
    /\ last.attached # {}
    /\ \E r \in DOMAIN reqs : r.feed = last.feed /\ r.live

\* C18: a subscription to a feed that already has subscribers leaves the
\* timer, the dedup state and the fetches in flight as they were and delivers
\* nothing to the newcomer; a value only reaches subscribers that were
\* attached when its fetch answered.
C18_LateJoin ==
    [][ /\ (last'.op = "subscribe" /\ last'.attached # {})
              => /\ connected' = connected
                 /\ dedup' = dedup
                 /\ emitted' = emitted
                 /\ reqs' = reqs
                 /\ last'.got = NoDelivery
                 /\ last'.nreq = 0 /\ last'.calls = 0
        /\ last'.op = "fetchResponse"
              => \A s \in Subscribers : last'.got[s] # "none" => s \in subs[last'.feed]
      ]_vars

\* A subscriber has joined the events feed after a value went out and while
\* the next fetch is in flight.
C18_Witness ==
    /\ last.op = "subscribe"
    /\ last.feed = "events"
    /\ last.outcome = "joined"
    /\ dedup.hasKey /\ dedup.key # <<>>
    /\ \E r \in DOMAIN reqs : r.feed = "events" /\ r.live

\* C19: when a session exchange stores its token while an access token is
\* cached, the access token the exchange was given is the cached one.
C19_TokenPair ==
    (/\ last.op = "exchangeResponse" /\ last.kind = "jwt"
     /\ Truthy(jwtToken) /\ Truthy(accessToken))
        => last.arg = accessToken

\* ---------------------------------------------------------- specifications
\* The caller of the Auth API: acquisition calls, init(), and the answers of
\* the two token endpoints.
UserAuthStep ==
    \/ FetchOAuthToken
    \/ \E arg \in AccessTokens \cup {"undefined"} : FetchJwtToken(arg)

ExchangeStep ==
    \E c \in BagToSet(pending) : \E answer \in Answers(c.kind) : ExchangeResponse(c, answer)

NextAuth == UserAuthStep \/ NestInit \/ ExchangeStep

SpecAuth == Init /\ [][NextAuth]_vars

\* The feeds. Tokens are opaque to the pipelines (only their truthiness is
\* read), so here each token endpoint answers one token value or fails.
OneTokenAnswers(kind) == {a \in Answers(kind) : a.tok \in {"a1", "j1"} \/ ~a.ok}

RefreshStep ==
    \/ NestInit
    \/ \E c \in BagToSet(pending) : \E answer \in OneTokenAnswers(c.kind) :
          ExchangeResponse(c, answer)

FeedStep ==
    \/ \E f \in Feeds : \E s \in Subscribers : Subscribe(f, s)
    \/ \E f \in Feeds : \E s \in Subscribers : Unsubscribe(f, s)
    \/ \E f \in Feeds : Tick(f)
    \/ \E r \in BagToSet(reqs) : \E p \in Payloads(r.feed) : FetchResponse(r, p)
    \/ \E id \in SnapshotIds : GetSnapshot(id)

NextFeed == FeedStep \/ RefreshStep

SpecFeed == Init /\ [][NextFeed]_vars

\* Everything together: the composition the two specifications above are
\* parts of (SpecAuth leaves the feeds idle, SpecFeed leaves out the direct
\* acquisition calls). Its state space is their product.
Next == UserAuthStep \/ NestInit \/ ExchangeStep \/ FeedStep

Spec == Init /\ [][Next]_vars

====
